---- MODULE Spec2Model ----
(***************************************************************************)
(* The HP Cloud and Vultr DNS drivers of libcloud as state machines.       *)
(*                                                                         *)
(* A driver operation is one action: it sets the connection's error        *)
(* context, issues its HTTP requests in the order of the code, and ends    *)
(* with a returned value or a raised error.  The answers of the remote     *)
(* server (status, body) are inputs of the action.                         *)
(*                                                                         *)
(* Python strings that the code builds or takes apart are sequences of     *)
(* one-character strings; a dict is the sequence of its <<key, value>>     *)
(* pairs, in the order the code writes them;                               *)
(* an object is the tuple of its fields, read through named operators.     *)
(***************************************************************************)
EXTENDS Integers, Sequences, FiniteSets, TLC

VARIABLES
    context,    \* hpcloud: connection.context, a dict
    hpCall,     \* hpcloud: the operation called last and its arguments
    hpSent,     \* hpcloud: the requests that operation issued, in order
    hpResult,   \* hpcloud: how that operation ended
    nmDomain,   \* record names: the domain
    nmName,     \* record names: the relative record name given
    nmFull,     \* record names: what _to_full_record_name built
    nmPartial,  \* record names: what _to_partial_record_name gave back
    nmPc,       \* record names: "idle", "start", "full" or "partial"
    vuServer,   \* vultr: the remote zones, each with its list of records
    vuNextId,   \* vultr: the RECORDID the server gives out next
    vuCall,     \* vultr: the operation called last and its arguments
    vuSent,     \* vultr: the requests that operation issued, in order
    vuResult    \* vultr: how that operation ended

hpVars == <<context, hpCall, hpSent, hpResult>>
nmVars == <<nmDomain, nmName, nmFull, nmPartial, nmPc>>
vuVars == <<vuServer, vuNextId, vuCall, vuSent, vuResult>>
vars == <<context, hpCall, hpSent, hpResult,
          nmDomain, nmName, nmFull, nmPartial, nmPc,
          vuServer, vuNextId, vuCall, vuSent, vuResult>>

-----------------------------------------------------------------------------
(* Python values *)

\* None, where a string is expected
None == <<"<None>">>

\* bool(s) of a str or None
Truthy(s) == s # None /\ s # <<>>

\* k in d
Has(d, k) == \E i \in 1..Len(d) : d[i][1] = k

\* d[k], for k in d
Get(d, k) == d[CHOOSE i \in 1..Len(d) : d[i][1] = k][2]

\* {}
EmptyDict == <<>>

-----------------------------------------------------------------------------
(* hpcloud.py: HPCloudDNSResponse.parse_error *)

NOT_FOUND == 404
CONFLICT == 409
OK == 200

\* the statuses a request is answered with
Statuses == {OK, NOT_FOUND, CONFLICT, 500}

\* the connection's response class treats these as success
Success(status) == status = OK

\* A parsed response body: whether it has 'code', whether it has 'message',
\* and its 'errors': "absent", "empty" (a list of no items) or "one" (a list
\* of one dict with a 'message').
Body(code, message, errors) == <<code, message, errors>>
HasCode(body) == body[1]
HasMessage(body) == body[2]
ErrorsOf(body) == body[3]

\* '' or {}
EmptyBody == Body(FALSE, FALSE, "absent")

Bodies ==
    { EmptyBody,
      Body(TRUE, FALSE, "absent"),
      Body(FALSE, TRUE, "absent"),
      Body(TRUE, TRUE, "absent"),
      Body(TRUE, TRUE, "empty"),
      Body(TRUE, TRUE, "one") }

\* how parse_error, or an operation, ends
Raised(error, id, value) == <<error, id, value>>
ErrorOf(result) == result[1]
IdOf(result) == result[2]
ValueOf(result) == result[3]
KeyError(key) == Raised("KeyError", key, <<>>)
IndexError == Raised("IndexError", "", <<>>)
\* parse_error returned the message string to its caller
ReturnedMessage == Raised("<returned message>", "", <<>>)
\* LibcloudError('Unexpected status code: %s' % (status))
Unexpected(status) ==
    Raised("LibcloudError", "Unexpected status code: " \o ToString(status), <<>>)
NoError == Raised("<none>", "", <<>>)

\* lines 64-70
BodyPart(status, body) ==
    IF body # EmptyBody /\ HasMessage(body)
    THEN IF ~HasCode(body) THEN KeyError("code")
         ELSE IF ErrorsOf(body) = "absent" THEN KeyError("errors")
         ELSE IF ErrorsOf(body) = "empty" THEN IndexError
         ELSE ReturnedMessage
    ELSE Unexpected(status)

\* lines 55-63 with the value left out, as in the not-found errors
ConflictPartNoValue(status, ctx, body) ==
    IF status = CONFLICT /\ Has(ctx, "resource")
    THEN IF Get(ctx, "resource") = "zone"
         THEN Raised("ZoneAlreadyExistsError", "None", <<>>)
         ELSE Raised("RecordAlreadyExistsError", "None", <<>>)
    ELSE BodyPart(status, body)

\* lines 55-63
ConflictPart(status, ctx, body) ==
    IF status = CONFLICT
    THEN IF ~Has(ctx, "resource") THEN KeyError("resource")
         ELSE IF Get(ctx, "resource") = "zone"
         THEN IF Has(ctx, "value")
              THEN Raised("ZoneAlreadyExistsError", "None", Get(ctx, "value"))
              ELSE KeyError("value")
         ELSE IF Get(ctx, "resource") = "record"
         THEN IF Has(ctx, "value")
              THEN Raised("RecordAlreadyExistsError", "None", Get(ctx, "value"))
              ELSE KeyError("value")
         ELSE BodyPart(status, body)
    ELSE BodyPart(status, body)

\* lines 43-54 with every 404 taken for a missing zone
parse_error_zone_only(status, ctx, body) ==
    IF status = NOT_FOUND /\ Has(ctx, "id")
    THEN Raised("ZoneDoesNotExistError", Get(ctx, "id"), <<>>)
    ELSE ConflictPart(status, ctx, body)

\* lines 43-54, then the rest
parse_error(status, ctx, body) ==
    IF status = NOT_FOUND
    THEN IF ~Has(ctx, "resource") THEN KeyError("resource")
         ELSE IF Get(ctx, "resource") = "zone"
         THEN IF Has(ctx, "id")
              THEN Raised("ZoneDoesNotExistError", Get(ctx, "id"), <<>>)
              ELSE KeyError("id")
         ELSE IF Get(ctx, "resource") = "record"
         THEN IF Has(ctx, "id")
              THEN Raised("RecordDoesNotExistError", Get(ctx, "id"), <<>>)
              ELSE KeyError("id")
         ELSE ConflictPart(status, ctx, body)
    ELSE ConflictPart(status, ctx, body)

-----------------------------------------------------------------------------
(* hpcloud.py: record names *)

\* s.replace(old, ''), for a non-empty old: every occurrence, left to right
RECURSIVE Remove(_, _)
Remove(s, old) ==
    IF Len(s) < Len(old) THEN s
    ELSE IF SubSeq(s, 1, Len(old)) = old
         THEN Remove(SubSeq(s, Len(old) + 1, Len(s)), old)
         ELSE <<Head(s)>> \o Remove(Tail(s), old)

\* lines 245-260
_to_full_record_name(domain, name) ==
    IF Truthy(name) THEN name \o <<".">> \o domain ELSE domain

\* lines 262-279
_to_partial_record_name(domain, name) ==
    IF name = domain THEN None ELSE Remove(name, <<".">> \o domain)

-----------------------------------------------------------------------------
(* hpcloud.py: HPCloudDNSDriver *)

\* the zones and records the operations are called with
Zone(id, domain) == <<id, domain>>
ZoneId(zone) == zone[1]
ZoneDomain(zone) == zone[2]

HPZones == { Zone("z1", <<"a">>), Zone("z2", <<"b", ".", "a">>) }
HPZoneIds == { ZoneId(z) : z \in HPZones }
HPDomains == { ZoneDomain(z) : z \in HPZones }
HPRecordIds == {"r1", "r2"}
HPNames == { None, <<>>, <<"w">>, <<"w", ".", "a">> }
HPRecords == HPRecordIds \X HPZones

\* the keys of RECORD_TYPE_MAP (lines 91-100), and a type it lacks
HP_RECORD_TYPE_MAP == {"A", "AAAA", "CNAME", "MX", "NS", "PTR", "SRV", "TXT"}
HPTypes == {"A", "SOA"}

\* the keys of the extra argument
HPZoneExtras == { {}, {"email", "comment"} }
HPRecordExtras == { {"ttl"}, {"description"}, {"description", "data"} }

\* the server's answer to one request
Answer(status, body) == <<status, body>>
StatusOf(answer) == answer[1]
BodyOf(answer) == answer[2]

Answers ==
    { Answer(OK, EmptyBody) } \cup ((Statuses \ {OK}) \X Bodies)

Call(op, zone_id, record_id, domain, name) ==
    <<op, zone_id, record_id, domain, name>>
CallOp(call) == call[1]
CallZoneId(call) == call[2]
CallRecordId(call) == call[3]
CallDomain(call) == call[4]
CallName(call) == call[5]

NoCall == Call("<none>", "", "", <<>>, <<>>)

\* one request as the log keeps it
Sent(method, ctx, answer) == <<method, ctx, StatusOf(answer), BodyOf(answer)>>
SentMethod(sent) == sent[1]
SentContext(sent) == sent[2]
SentStatus(sent) == sent[3]
SentBody(sent) == sent[4]

\* connection.set_context(ctx)
set_context(ctx) == ctx

\* connection.request: the response class raises what parse_error raises
\* when the status is no success
request(ctx, answer) ==
    IF Success(StatusOf(answer)) THEN NoError
    ELSE parse_error(StatusOf(answer), ctx, BodyOf(answer))

\* The context once the request is over: the connection class may clear it
\* when the response has been built.
AfterRequest(ctx, reset) == IF reset THEN EmptyDict ELSE ctx

\* an operation that ends: what it was, what it sent, how it ended
HpEnd(call, sent, result, ctx) ==
    /\ hpCall' = call
    /\ hpSent' = sent
    /\ hpResult' = result
    /\ context' = ctx
    /\ UNCHANGED nmVars
    /\ UNCHANGED vuVars

\* lines 116-121
get_zone ==
    \E zone_id \in HPZoneIds, answer \in Answers, reset \in BOOLEAN :
        LET ctx == set_context(<<<<"resource", "zone">>, <<"id", zone_id>>>>)
        IN  HpEnd(Call("get_zone", zone_id, "", <<>>, <<>>),
                  <<Sent("GET", ctx, answer)>>,
                  request(ctx, answer),
                  AfterRequest(ctx, reset))

\* lines 123-127: no context is set
iterate_zones ==
    \E answer \in Answers, reset \in BOOLEAN :
        HpEnd(Call("iterate_zones", "", "", <<>>, <<>>),
              <<Sent("GET", context, answer)>>,
              request(context, answer),
              AfterRequest(context, reset))

\* lines 129-135: get_zone's request, then the record's
get_record ==
    \E zone_id \in HPZoneIds, record_id \in HPRecordIds,
       answer \in Answers, reset \in BOOLEAN :
        LET call == Call("get_record", zone_id, record_id, <<>>, <<>>)
            ctx1 == set_context(<<<<"resource", "zone">>, <<"id", zone_id>>>>)
            ctx2 == set_context(<<<<"resource", "record">>, <<"id", record_id>>>>)
            found == Answer(OK, EmptyBody)
        IN  \/ /\ request(ctx1, answer) # NoError
               /\ HpEnd(call, <<Sent("GET", ctx1, answer)>>,
                        request(ctx1, answer), AfterRequest(ctx1, reset))
            \/ /\ request(ctx1, found) = NoError
               /\ HpEnd(call,
                        <<Sent("GET", ctx1, found), Sent("GET", ctx2, answer)>>,
                        request(ctx2, answer), AfterRequest(ctx2, reset))

\* lines 137-143
iterate_records ==
    \E zone \in HPZones, answer \in Answers, reset \in BOOLEAN :
        LET ctx == set_context(<<<<"resource", "zone">>, <<"id", ZoneId(zone)>>>>)
        IN  HpEnd(Call("iterate_records", ZoneId(zone), "", ZoneDomain(zone), <<>>),
                  <<Sent("GET", ctx, answer)>>,
                  request(ctx, answer),
                  AfterRequest(ctx, reset))

\* lines 145-164
create_zone ==
    \E domain \in HPDomains, extra \in HPZoneExtras :
        LET call == Call("create_zone", "", "", domain, <<>>)
            ctx == set_context(<<<<"resource", "zone">>, <<"value", domain>>>>)
        IN  \/ /\ "email" \notin extra
               /\ HpEnd(call, <<>>, Raised("ValueError", "email", <<>>),
                        context)
            \/ /\ "email" \in extra
               /\ \E answer \in Answers, reset \in BOOLEAN :
                      HpEnd(call, <<Sent("POST", ctx, answer)>>,
                            request(ctx, answer), AfterRequest(ctx, reset))

\* lines 166-196
create_record ==
    \E name \in HPNames, zone \in HPZones, type \in HPTypes,
       extra \in HPRecordExtras :
        LET full == _to_full_record_name(ZoneDomain(zone), name)
            call == Call("create_record", ZoneId(zone), "", ZoneDomain(zone),
                         name)
            ctx == set_context(<<<<"resource", "record">>, <<"value", full>>>>)
        IN  \/ /\ type \notin HP_RECORD_TYPE_MAP
               /\ HpEnd(call, <<>>, KeyError("type"), context)
            \/ /\ type \in HP_RECORD_TYPE_MAP
               /\ "description" \in extra /\ "data" \notin extra
               /\ HpEnd(call, <<>>, KeyError("data"), context)
            \/ /\ type \in HP_RECORD_TYPE_MAP
               /\ "description" \in extra => "data" \in extra
               /\ \E answer \in Answers, reset \in BOOLEAN :
                      HpEnd(call, <<Sent("POST", ctx, answer)>>,
                            request(ctx, answer), AfterRequest(ctx, reset))

\* lines 198-203
delete_zone ==
    \E zone \in HPZones, answer \in Answers, reset \in BOOLEAN :
        LET ctx == set_context(<<<<"resource", "zone">>, <<"id", ZoneId(zone)>>>>)
        IN  HpEnd(Call("delete_zone", ZoneId(zone), "", ZoneDomain(zone), <<>>),
                  <<Sent("DELETE", ctx, answer)>>,
                  request(ctx, answer),
                  AfterRequest(ctx, reset))

\* lines 205-210
delete_record ==
    \E record \in HPRecords, answer \in Answers, reset \in BOOLEAN :
        LET ctx == set_context(<<<<"resource", "record">>, <<"id", record[1]>>>>)
        IN  HpEnd(Call("delete_record", ZoneId(record[2]), record[1],
                       ZoneDomain(record[2]), <<>>),
                  <<Sent("DELETE", ctx, answer)>>,
                  request(ctx, answer),
                  AfterRequest(ctx, reset))

-----------------------------------------------------------------------------
(* vultr.py: what the driver works on *)

\* The cap on the RECORDIDs the server gives out.
MaxRecordId == 2

VuDomains == {"a.com", "b.org"}
VuNames == {"www", "mail"}
VuRecordIds == 1..MaxRecordId
VuData == {"192.0.2.1"}

\* lines 30-39
VU_RECORD_TYPE_MAP ==
    << <<"A", "A">>, <<"AAAA", "AAAA">>, <<"TXT", "TXT">>,
       <<"CNAME", "CNAME">>, <<"MX", "MX">>, <<"NS", "NS">>,
       <<"SRV", "SRV">> >>

\* dict.get(key): the string 'None' stands for None
DictGet(d, k) == IF Has(d, k) THEN Get(d, k) ELSE "None"

\* the types create_record is called with: one without and the two with a
\* priority
VuTypes == {"A", "MX", "SRV"}

\* an optional dict argument: None, or a dict
NoneArg == <<"None", EmptyDict>>
DictArg(d) == <<"dict", d>>
DictOf(arg) == arg[2]
\* bool(arg)
TruthyArg(arg) == arg[1] = "dict" /\ DictOf(arg) # EmptyDict
\* arg and arg.get(key)
TruthyEntry(arg, key) ==
    /\ TruthyArg(arg)
    /\ Has(DictOf(arg), key)
    /\ Get(DictOf(arg), key) # ""

\* the largest priority among the arguments
MaxPriority == 10

\* line 249: int(s) for a decimal string, the number that is written s
int(s) == CHOOSE n \in 0..MaxPriority : ToString(n) = s

VuZoneExtras ==
    { NoneArg, DictArg(EmptyDict), DictArg(<<<<"serverip", "127.0.0.1">>>>) }
VuRecordExtras ==
    { NoneArg, DictArg(EmptyDict),
      DictArg(<<<<"priority", ToString(MaxPriority)>>>>) }

\* the statuses the server answers a POST with; it has acted on the request
\* when it answers 200
VuStatuses == {OK, 202}
ServerActs(status) == status = OK

\* The server: its zones in the order it lists them, each <<domain, records>>
\* with the records in the order it lists them, each <<RECORDID, name>>.
ServerDomain(entry) == entry[1]
ServerRecords(entry) == entry[2]
ItemId(item) == item[1]
ItemName(item) == item[2]

\* the response to /v1/dns/records for a domain the server has
RecordsOf(server, domain) ==
    ServerRecords(server[CHOOSE i \in 1..Len(server) :
                             ServerDomain(server[i]) = domain])

\* A Record, of which the operations read id, name and zone.
Record(id, name, zone) == <<id, name, zone>>
RecordId(record) == record[1]
RecordName(record) == record[2]
RecordZone(record) == record[3]

\* an argument that is no Zone
NotAZone == None
VuZoneArgs == { Zone(d, d) : d \in VuDomains }

\* one request as the log keeps it: method, action, the query or the form
\* data, and the status it was answered with
VuRequest(method, action, data, status) == <<method, action, data, status>>
RequestMethod(req) == req[1]
RequestAction(req) == req[2]
RequestData(req) == req[3]
RequestStatus(req) == req[4]

ListRequest == VuRequest("GET", "/v1/dns/list", EmptyDict, OK)
RecordsRequest(domain) ==
    VuRequest("GET", "/v1/dns/records", <<<<"domain", domain>>>>, OK)

VuCall(op, zone_id, record_id, name, type, data, extra) ==
    <<op, zone_id, record_id, name, type, data, extra>>
VuOp(call) == call[1]
VuZoneId(call) == call[2]
VuRecordId(call) == call[3]
VuName(call) == call[4]
VuType(call) == call[5]
VuDataOf(call) == call[6]
VuExtra(call) == call[7]

\* how an operation ends: the error raised with its zone_id and record_id,
\* or the value returned
VuRaise(error, zone_id, record_id) == <<error, zone_id, record_id, <<"raised">>>>
VuReturn(value) == <<"<none>", "", 0, value>>
VuError(result) == result[1]
VuErrorZoneId(result) == result[2]
VuErrorRecordId(result) == result[3]
VuValue(result) == result[4]

ZoneValue(zone) == <<"Zone", ZoneId(zone), ZoneDomain(zone)>>
RecordValue(record) ==
    <<"Record", RecordId(record), RecordName(record), RecordZone(record)>>
BoolValue(b) == <<"bool", b>>
NoneValue == <<"None">>

-----------------------------------------------------------------------------
(* vultr.py: VultrDNSDriver *)

\* lines 41-55
_to_zone(item) == Zone(ServerDomain(item), ServerDomain(item))

\* lines 57-69
_to_zones(items) == [i \in 1..Len(items) |-> _to_zone(items[i])]

\* lines 71-82
_to_record(item, zone) == Record(ItemId(item), ItemName(item), zone)

\* lines 84-89
_to_records(items, zone) ==
    [i \in 1..Len(items) |-> _to_record(items[i], zone)]

\* lines 92-103
list_zones(server) == _to_zones(server)

\* lines 280-295
zone_exists(zone_id, zones_list) ==
    \E i \in 1..Len(zones_list) : ZoneDomain(zones_list[i]) = zone_id

\* lines 297-304
record_exists(record_id, records_list) ==
    \E i \in 1..Len(records_list) : RecordId(records_list[i]) = record_id

\* What a call made inside an operation gives: the requests it sent, the
\* error it raised ("<none>" when it returned) and the value it returned.
Steps(sent, error, value) == <<sent, error, value>>
StepsSent(steps) == steps[1]
StepsError(steps) == steps[2]
StepsValue(steps) == steps[3]

\* the index a loop that keeps assigning on a match ends with, given which
\* elements match
LastIndex(matches) ==
    CHOOSE i \in 1..Len(matches) :
        matches[i] /\ \A j \in (i + 1)..Len(matches) : ~matches[j]

\* the index a loop that raises on a match stops at
FirstIndex(matches) ==
    CHOOSE i \in 1..Len(matches) :
        matches[i] /\ \A j \in 1..(i - 1) : ~matches[j]

\* lines 105-127, with the loop keeping whatever zone it saw last
get_zone_steps_last(server, zone_id) ==
    LET zones == _to_zones(server)
    IN  IF ~zone_exists(zone_id, zones)
        THEN Steps(<<ListRequest>>, "ZoneDoesNotExistError", NotAZone)
        ELSE Steps(<<ListRequest>>, "<none>", zones[Len(zones)])

\* lines 105-127
get_zone_steps(server, zone_id) ==
    LET zones == _to_zones(server)
        Same(zone) == zone_id = ZoneDomain(zone)
    IN  IF ~zone_exists(zone_id, zones)
        THEN Steps(<<ListRequest>>, "ZoneDoesNotExistError", NotAZone)
        ELSE Steps(<<ListRequest>>, "<none>",
                   zones[LastIndex([i \in 1..Len(zones) |-> Same(zones[i])])])

\* lines 153-179
list_records(server, zone) ==
    IF zone = NotAZone
    THEN Steps(<<>>, "ZoneRequiredException", <<>>)
    ELSE IF ~zone_exists(ZoneDomain(zone), list_zones(server))
    THEN Steps(<<ListRequest>>, "ZoneDoesNotExistError", <<>>)
    ELSE Steps(<<ListRequest, RecordsRequest(ZoneDomain(zone))>>, "<none>",
               _to_records(RecordsOf(server, ZoneDomain(zone)), zone))

\* an operation that ends: what it was, what it sent, how it ended, and the
\* server after it
VuEnd(call, sent, result, server, nextId) ==
    /\ vuCall' = call
    /\ vuSent' = sent
    /\ vuResult' = result
    /\ vuServer' = server
    /\ vuNextId' = nextId
    /\ UNCHANGED hpVars
    /\ UNCHANGED nmVars

\* lines 105-127
vultr_get_zone ==
    \E zone_id \in VuDomains :
        LET steps == get_zone_steps(vuServer, zone_id)
            call == VuCall("get_zone", zone_id, 0, "", "", "", NoneArg)
        IN  VuEnd(call, StepsSent(steps),
                  IF StepsError(steps) # "<none>"
                  THEN VuRaise(StepsError(steps), zone_id, 0)
                  ELSE VuReturn(ZoneValue(StepsValue(steps))),
                  vuServer, vuNextId)

\* lines 129-151
vultr_get_record ==
    \E zone_id \in VuDomains, record_id \in VuRecordIds :
        LET call == VuCall("get_record", zone_id, record_id, "", "", "",
                           NoneArg)
            found == get_zone_steps(vuServer, zone_id)
            zone == StepsValue(found)
            listed == list_records(vuServer, zone)
            records == StepsValue(listed)
            Same(record) == record_id = RecordId(record)
        IN  IF StepsError(found) # "<none>"
            THEN VuEnd(call, StepsSent(found),
                       VuRaise(StepsError(found), zone_id, 0),
                       vuServer, vuNextId)
            ELSE IF StepsError(listed) # "<none>"
            THEN VuEnd(call, StepsSent(found) \o StepsSent(listed),
                       VuRaise(StepsError(listed), zone_id, 0),
                       vuServer, vuNextId)
            ELSE IF ~record_exists(record_id, records)
            THEN VuEnd(call, StepsSent(found) \o StepsSent(listed),
                       VuRaise("RecordDoesNotExistError", "", record_id),
                       vuServer, vuNextId)
            ELSE VuEnd(call, StepsSent(found) \o StepsSent(listed),
                       VuReturn(RecordValue(records[LastIndex(
                           [i \in 1..Len(records) |-> Same(records[i])])])),
                       vuServer, vuNextId)

\* the server with a zone of no records added
WithZone(server, domain) == Append(server, <<domain, <<>>>>)

\* the server without a zone
WithoutZone(server, domain) ==
    SelectSeq(server, LAMBDA entry : ServerDomain(entry) # domain)

\* lines 182-206
vultr_create_zone ==
    \E zone_id \in VuDomains, extra \in VuZoneExtras :
        LET call == VuCall("create_zone", zone_id, 0, "", "", "", extra)
            serverip == Get(DictOf(extra), "serverip")
            data == <<<<"domain", zone_id>>, <<"serverip", serverip>>>>
        IN  \/ /\ ~TruthyEntry(extra, "serverip")
               /\ VuEnd(call, <<>>, VuRaise("UnboundLocalError", "", 0),
                        vuServer, vuNextId)
            \/ /\ TruthyEntry(extra, "serverip")
               /\ zone_exists(zone_id, list_zones(vuServer))
               /\ VuEnd(call, <<ListRequest>>,
                        VuRaise("ZoneAlreadyExistsError", zone_id, 0),
                        vuServer, vuNextId)
            \/ /\ TruthyEntry(extra, "serverip")
               /\ ~zone_exists(zone_id, list_zones(vuServer))
               /\ \E status \in VuStatuses :
                      VuEnd(call,
                            <<ListRequest,
                              VuRequest("POST", "/v1/dns/create_domain", data,
                                        status)>>,
                            VuReturn(ZoneValue(Zone(zone_id, zone_id))),
                            IF ServerActs(status)
                            THEN WithZone(vuServer, zone_id) ELSE vuServer,
                            vuNextId)

\* lines 220 and 235, answering True whatever the status
deleted_always(status) == TRUE

\* lines 220 and 235: return response.status == 200
deleted(status) == status = OK

\* lines 208-220
vultr_delete_zone ==
    \E zone \in VuZoneArgs :
        LET call == VuCall("delete_zone", ZoneDomain(zone), 0, "", "", "",
                           NoneArg)
            data == <<<<"domain", ZoneDomain(zone)>>>>
        IN  \/ /\ ~zone_exists(ZoneDomain(zone), list_zones(vuServer))
               /\ VuEnd(call, <<ListRequest>>,
                        VuRaise("ZoneDoesNotExistError", ZoneDomain(zone), 0),
                        vuServer, vuNextId)
            \/ /\ zone_exists(ZoneDomain(zone), list_zones(vuServer))
               /\ \E status \in VuStatuses :
                      VuEnd(call,
                            <<ListRequest,
                              VuRequest("POST", "/v1/dns/delete_domain", data,
                                        status)>>,
                            VuReturn(BoolValue(deleted(status))),
                            IF ServerActs(status)
                            THEN WithoutZone(vuServer, ZoneDomain(zone))
                            ELSE vuServer,
                            vuNextId)

\* the server with the records of one zone replaced
WithRecords(server, domain, records) ==
    [i \in 1..Len(server) |->
        IF ServerDomain(server[i]) = domain
        THEN <<domain, records>> ELSE server[i]]

\* a list with an item put at position pos
InsertAt(list, pos, item) ==
    SubSeq(list, 1, pos - 1) \o <<item>> \o SubSeq(list, pos, Len(list))

\* lines 222-235
vultr_delete_record ==
    \E record_id \in VuRecordIds, zone \in VuZoneArgs \cup {NotAZone} :
        LET record == Record(record_id, "", zone)
            domain == IF zone = NotAZone THEN "" ELSE ZoneDomain(zone)
            call == VuCall("delete_record", domain, record_id, "", "", "",
                           NoneArg)
            data == <<<<"RECORDID", ToString(RecordId(record))>>,
                      <<"domain", domain>>>>
            listed == list_records(vuServer, RecordZone(record))
            zone_records == StepsValue(listed)
            left == SelectSeq(RecordsOf(vuServer, domain),
                              LAMBDA item : ItemId(item) # record_id)
        IN  \* line 226: record.zone.domain is read before anything is sent
            \/ /\ zone = NotAZone
               /\ VuEnd(call, <<>>, VuRaise("AttributeError", "", 0),
                        vuServer, vuNextId)
            \/ /\ zone # NotAZone
               /\ StepsError(listed) # "<none>"
               /\ VuEnd(call, StepsSent(listed),
                        VuRaise(StepsError(listed), domain, 0),
                        vuServer, vuNextId)
            \/ /\ StepsError(listed) = "<none>"
               /\ ~record_exists(RecordId(record), zone_records)
               /\ VuEnd(call, StepsSent(listed),
                        VuRaise("RecordDoesNotExistError", "", record_id),
                        vuServer, vuNextId)
            \/ /\ StepsError(listed) = "<none>"
               /\ record_exists(RecordId(record), zone_records)
               /\ \E status \in VuStatuses :
                      VuEnd(call,
                            StepsSent(listed) \o
                                <<VuRequest("POST", "/v1/dns/delete_record",
                                            data, status)>>,
                            VuReturn(BoolValue(deleted(status))),
                            IF ServerActs(status)
                            THEN WithRecords(vuServer, domain, left)
                            ELSE vuServer,
                            vuNextId)

\* lines 242-245: the loop that looks for a record of the name; compared by
\* id, it would miss every record
name_exists_by_id(name, records_list) ==
    \E i \in 1..Len(records_list) : ToString(RecordId(records_list[i])) = name

name_exists(name, records_list) ==
    \E i \in 1..Len(records_list) : RecordName(records_list[i]) = name

\* lines 237-278
vultr_create_record ==
    \E name \in VuNames, zone \in VuZoneArgs \cup {NotAZone},
       type \in VuTypes, data \in VuData, extra \in VuRecordExtras :
        LET domain == IF zone = NotAZone THEN "" ELSE ZoneDomain(zone)
            call == VuCall("create_record", domain, 0, name, type, data, extra)
            listed == list_records(vuServer, zone)
            old_records_list == StepsValue(listed)
            Same(record) == RecordName(record) = name
            exists == name_exists(name, old_records_list)
            \* lines 248-249: priority is assigned only here
            bound == TruthyEntry(extra, "priority")
            priority == int(Get(DictOf(extra), "priority"))
            MX == DictGet(VU_RECORD_TYPE_MAP, "MX")
            SRV == DictGet(VU_RECORD_TYPE_MAP, "SRV")
            \* lines 254-259: the dict that gets the priority; its type is
            \* looked up under the key 'type'
            first_post_data ==
                <<<<"domain", domain>>, <<"name", name>>,
                  <<"type", DictGet(VU_RECORD_TYPE_MAP, "type")>>,
                  <<"data", data>>>> \o
                (IF type = MX \/ type = SRV
                 THEN <<<<"priority", priority>>>> ELSE <<>>)
            \* lines 262-263: the dict of lines 254-259 is replaced
            post_data == <<<<"domain", domain>>, <<"name", name>>,
                           <<"type", DictGet(VU_RECORD_TYPE_MAP, type)>>,
                           <<"data", data>>>>
        IN  \/ /\ StepsError(listed) # "<none>"
               /\ VuEnd(call, StepsSent(listed),
                        VuRaise(StepsError(listed), domain, 0),
                        vuServer, vuNextId)
            \/ /\ StepsError(listed) = "<none>"
               /\ exists
               /\ VuEnd(call, StepsSent(listed),
                        VuRaise("RecordAlreadyExistsError", "",
                                RecordId(old_records_list[
                                    FirstIndex(
                                        [i \in 1..Len(old_records_list) |->
                                            Same(old_records_list[i])])])),
                        vuServer, vuNextId)
            \/ /\ StepsError(listed) = "<none>"
               /\ ~exists
               /\ (type = MX \/ type = SRV) /\ ~bound
               /\ VuEnd(call, StepsSent(listed),
                        VuRaise("UnboundLocalError", "", 0),
                        vuServer, vuNextId)
            \/ /\ StepsError(listed) = "<none>"
               /\ ~exists
               /\ (type = MX \/ type = SRV) => bound
               /\ vuNextId <= MaxRecordId
               /\ \E status \in VuStatuses,
                     pos \in 1..(Len(old_records_list) + 1) :
                      LET after ==
                              IF ServerActs(status)
                              THEN WithRecords(vuServer, domain,
                                       InsertAt(RecordsOf(vuServer, domain),
                                                pos, <<vuNextId, name>>))
                              ELSE vuServer
                          relisted == list_records(after, zone)
                          updated_zone_records == StepsValue(relisted)
                          \* lines 273-278: the loop leaves its last item
                          record ==
                              IF updated_zone_records = <<>> THEN NoneValue
                              ELSE RecordValue(updated_zone_records[
                                       Len(updated_zone_records)])
                      IN  VuEnd(call,
                                StepsSent(listed) \o
                                    <<VuRequest("POST",
                                                "/v1/dns/create_record",
                                                post_data, status)>> \o
                                    StepsSent(relisted),
                                VuReturn(record),
                                after,
                                IF ServerActs(status)
                                THEN vuNextId + 1 ELSE vuNextId)

HpInit ==
    /\ context = EmptyDict
    /\ hpCall = NoCall
    /\ hpSent = <<>>
    /\ hpResult = NoError

NmIdle ==
    /\ nmDomain = <<>>
    /\ nmName = <<>>
    /\ nmFull = <<>>
    /\ nmPartial = <<>>
    /\ nmPc = "idle"

VuIdle ==
    /\ vuServer = <<>>
    /\ vuNextId = 1
    /\ vuCall = VuCall("<none>", "", 0, "", "", "", NoneArg)
    /\ vuSent = <<>>
    /\ vuResult = VuReturn(NoneValue)

(* The HP Cloud driver: any sequence of operations on one connection *)

Init == HpInit /\ NmIdle /\ VuIdle

Next ==
    \/ get_zone
    \/ iterate_zones
    \/ get_record
    \/ iterate_records
    \/ create_zone
    \/ create_record
    \/ delete_zone
    \/ delete_record

Spec == Init /\ [][Next]_vars

-----------------------------------------------------------------------------
(* hpcloud.py: a record name built by create_record (line 171) and taken   *)
(* apart by _to_record (line 232)                                          *)

MaxNameLen == 3
MaxDomainLen == 2

Chars == {"a", "b", "."}

\* strings of at most n characters
Strings(n) == UNION { [1..k -> Chars] : k \in 0..n }

\* a host name: labels of letters joined by single dots
IsHostName(s) ==
    /\ s # <<>>
    /\ s[1] # "." /\ s[Len(s)] # "."
    /\ \A i \in 1..(Len(s) - 1) : ~(s[i] = "." /\ s[i + 1] = ".")

HostNames(n) == { s \in Strings(n) : IsHostName(s) }

NmInit ==
    /\ nmDomain \in HostNames(MaxDomainLen)
    /\ nmName \in HostNames(MaxNameLen) \cup {None, <<>>}
    /\ nmFull = <<>>
    /\ nmPartial = <<>>
    /\ nmPc = "start"

BuildFullName ==
    /\ nmPc = "start"
    /\ nmFull' = _to_full_record_name(nmDomain, nmName)
    /\ nmPc' = "full"
    /\ UNCHANGED <<nmDomain, nmName, nmPartial>>
    /\ UNCHANGED hpVars
    /\ UNCHANGED vuVars

StripFullName ==
    /\ nmPc = "full"
    /\ nmPartial' = _to_partial_record_name(nmDomain, nmFull)
    /\ nmPc' = "partial"
    /\ UNCHANGED <<nmDomain, nmName, nmFull>>
    /\ UNCHANGED hpVars
    /\ UNCHANGED vuVars

InitNames == HpInit /\ NmInit /\ VuIdle

NextNames == BuildFullName \/ StripFullName

SpecNames == InitNames /\ [][NextNames]_vars

(* The Vultr driver: any sequence of operations against one server *)

InitVultr == HpInit /\ NmIdle /\ VuIdle

NextVultr ==
    \/ vultr_get_zone
    \/ vultr_get_record
    \/ vultr_create_zone
    \/ vultr_delete_zone
    \/ vultr_delete_record
    \/ vultr_create_record

SpecVultr == InitVultr /\ [][NextVultr]_vars

-----------------------------------------------------------------------------
(* Properties of the HP Cloud driver *)

Last(seq) == seq[Len(seq)]

\* the resource kind of the operation's n-th request
OwnResource(call, n) ==
    CASE CallOp(call) \in {"get_zone", "iterate_zones", "iterate_records",
                           "create_zone", "delete_zone"} -> "zone"
      [] CallOp(call) \in {"create_record", "delete_record"} -> "record"
      [] CallOp(call) = "get_record" -> IF n = 1 THEN "zone" ELSE "record"

\* the identifier the operation's n-th request is about
OwnId(call, n) ==
    CASE CallOp(call) \in {"get_zone", "iterate_records", "delete_zone"} ->
            CallZoneId(call)
      [] CallOp(call) = "delete_record" -> CallRecordId(call)
      [] CallOp(call) = "get_record" ->
            IF n = 1 THEN CallZoneId(call) ELSE CallRecordId(call)

NotFoundError(resource) ==
    IF resource = "zone" THEN "ZoneDoesNotExistError"
    ELSE "RecordDoesNotExistError"

\* C1: when a request of get_zone, get_record, iterate_records, delete_zone
\* or delete_record is answered 404, the operation ends with the not-found
\* error of the resource kind in the context of that request, and the error
\* carries the identifier the operation was called for.
C1_NotFoundIsReported ==
    \A n \in 1..Len(hpSent) :
        ( /\ CallOp(hpCall) \in {"get_zone", "get_record", "iterate_records",
                                 "delete_zone", "delete_record"}
          /\ SentStatus(hpSent[n]) = NOT_FOUND )
        => /\ n = Len(hpSent)
           /\ Has(SentContext(hpSent[n]), "resource")
           /\ Get(SentContext(hpSent[n]), "resource") = OwnResource(hpCall, n)
           /\ ErrorOf(hpResult) = NotFoundError(OwnResource(hpCall, n))
           /\ IdOf(hpResult) = OwnId(hpCall, n)

\* a record lookup whose second request, the record's, was answered 404
C1_Witness ==
    /\ CallOp(hpCall) = "get_record"
    /\ Len(hpSent) = 2
    /\ SentStatus(hpSent[2]) = NOT_FOUND
    /\ ErrorOf(hpResult) = "RecordDoesNotExistError"
    /\ IdOf(hpResult) = CallRecordId(hpCall)

\* the fully-qualified name create_record asks the server to create
RequestedName(call) ==
    IF CallName(call) \in {None, <<>>} THEN CallDomain(call)
    ELSE CallName(call) \o <<".">> \o CallDomain(call)

\* C2: when the POST of create_zone or create_record is answered 409, the
\* operation ends with ZoneAlreadyExistsError, respectively
\* RecordAlreadyExistsError, whose value is the domain, respectively the
\* fully-qualified record name, it tried to create.
C2_ConflictIsReported ==
    ( /\ CallOp(hpCall) \in {"create_zone", "create_record"}
      /\ hpSent # <<>>
      /\ SentStatus(Last(hpSent)) = CONFLICT )
    => IF CallOp(hpCall) = "create_zone"
       THEN /\ ErrorOf(hpResult) = "ZoneAlreadyExistsError"
            /\ ValueOf(hpResult) = CallDomain(hpCall)
       ELSE /\ ErrorOf(hpResult) = "RecordAlreadyExistsError"
            /\ ValueOf(hpResult) = RequestedName(hpCall)

\* a record with a relative name whose creation was answered 409
C2_Witness ==
    /\ CallOp(hpCall) = "create_record"
    /\ Truthy(CallName(hpCall))
    /\ hpSent # <<>>
    /\ SentStatus(Last(hpSent)) = CONFLICT
    /\ ErrorOf(hpResult) = "RecordAlreadyExistsError"

\* C3: for a status that is no success and neither 404 nor 409, parse_error
\* raises LibcloudError 'Unexpected status code: <status>' whatever the body
\* is; it neither returns nor raises another error.
C3_OtherStatusIsUnexpected ==
    \A n \in 1..Len(hpSent) :
        SentStatus(hpSent[n]) \notin {OK, NOT_FOUND, CONFLICT}
        => hpResult = Raised("LibcloudError",
                             "Unexpected status code: "
                                 \o ToString(SentStatus(hpSent[n])),
                             <<>>)

\* C5: every request is issued with the context of its own operation: the
\* operation's resource kind, and each key parse_error reads for the status
\* the request is answered with; so no operation ends in a missing-key
\* failure or in an error about an earlier operation's resource.
C5_ContextIsOwn ==
    \A n \in 1..Len(hpSent) :
        LET ctx == SentContext(hpSent[n])
            status == SentStatus(hpSent[n])
        IN  ~Success(status)
            => /\ Has(ctx, "resource")
               /\ Get(ctx, "resource") = OwnResource(hpCall, n)
               /\ status = NOT_FOUND => Has(ctx, "id")
               /\ status = CONFLICT => Has(ctx, "value")
               /\ ErrorOf(hpResult) # "KeyError"

-----------------------------------------------------------------------------
(* Properties of the record names *)

\* C4: stripping the domain from the full name gives the relative name back,
\* also when the name contains '.<domain>'; for an empty name or None the
\* full name is the domain and stripping it gives None.
C4_RoundTrip ==
    nmPc = "partial"
    => IF nmName \in {None, <<>>}
       THEN nmFull = nmDomain /\ nmPartial = None
       ELSE nmPartial = nmName

-----------------------------------------------------------------------------
(* Properties of the Vultr driver *)

\* the server lists the domain
Listed(server, domain) ==
    \E i \in 1..Len(server) : server[i][1] = domain

\* the <<RECORDID, name>> items the server lists for a domain it has
ListedItems(server, domain) ==
    server[CHOOSE i \in 1..Len(server) : server[i][1] = domain][2]

\* the server lists the domain, and a record of that id in it
ListedId(server, domain, id) ==
    /\ Listed(server, domain)
    /\ \E j \in 1..Len(ListedItems(server, domain)) :
           ListedItems(server, domain)[j][1] = id

\* the POST requests of a log, in order
Posts(sent) == SelectSeq(sent, LAMBDA req : RequestMethod(req) = "POST")

\* C6: get_zone returns a Zone whose domain is zone_id exactly when the
\* server lists that domain and raises ZoneDoesNotExistError otherwise;
\* get_record raises ZoneDoesNotExistError when the zone is absent,
\* RecordDoesNotExistError when the zone has no record of that id, and
\* otherwise returns a Record of that id in that zone; neither returns None.
\* (Neither operation changes the server, so the server of the state is the
\* one the operation listed.)
C6_LookupsFindOrRaise ==
    LET zone_id == VuZoneId(vuCall)
        record_id == VuRecordId(vuCall)
        value == VuValue(vuResult)
    IN  /\ VuOp(vuCall) = "get_zone" =>
            IF Listed(vuServer, zone_id)
            THEN /\ VuError(vuResult) = "<none>"
                 /\ value[1] = "Zone"
                 /\ value[3] = zone_id
            ELSE vuResult = VuRaise("ZoneDoesNotExistError", zone_id, 0)
        /\ VuOp(vuCall) = "get_record" =>
            IF ~Listed(vuServer, zone_id)
            THEN vuResult = VuRaise("ZoneDoesNotExistError", zone_id, 0)
            ELSE IF ~ListedId(vuServer, zone_id, record_id)
            THEN vuResult = VuRaise("RecordDoesNotExistError", "", record_id)
            ELSE /\ VuError(vuResult) = "<none>"
                 /\ value[1] = "Record"
                 /\ value[2] = record_id
                 /\ ZoneDomain(value[4]) = zone_id

\* get_record found its record in the first of two listed zones
C6_Witness ==
    /\ VuOp(vuCall) = "get_record"
    /\ VuError(vuResult) = "<none>"
    /\ VuValue(vuResult)[1] = "Record"
    /\ Len(vuServer) = 2
    /\ vuServer[1][1] = VuZoneId(vuCall)

\* C7: for every extra, create_zone either raises ZoneAlreadyExistsError
\* for a listed zone and sends no create_domain request, or sends exactly
\* one create_domain POST for the domain and returns a Zone whose id and
\* domain are zone_id.
C7_CreateZoneForEveryExtra ==
    VuOp(vuCall) = "create_zone" =>
        LET zone_id == VuZoneId(vuCall)
            posts == Posts(vuSent)
        IN  \/ /\ vuResult = VuRaise("ZoneAlreadyExistsError", zone_id, 0)
               /\ posts = <<>>
               /\ Listed(vuServer, zone_id)
            \/ /\ vuResult = VuReturn(<<"Zone", zone_id, zone_id>>)
               /\ Len(posts) = 1
               /\ RequestAction(posts[1]) = "/v1/dns/create_domain"
               /\ Has(RequestData(posts[1]), "domain")
               /\ Get(RequestData(posts[1]), "domain") = zone_id

\* C8: a deletion sends its POST only as the last request, after the lists
\* in which the zone, and for delete_record the record id, were found; when
\* the zone or the record is not on the server it raises
\* ZoneDoesNotExistError, respectively RecordDoesNotExistError, and sends no
\* POST; when the POST is sent the call returns True exactly when the
\* answer's status is 200.
C8_DeleteChecksFirst ==
    [][ LET call == vuCall'
            domain == VuZoneId(call)
            record_id == VuRecordId(call)
            sent == vuSent'
            result == vuResult'
        IN  /\ VuOp(call) = "delete_zone" =>
                IF Listed(vuServer, domain)
                THEN /\ Len(sent) = 2
                     /\ sent[1] = ListRequest
                     /\ RequestMethod(sent[2]) = "POST"
                     /\ RequestAction(sent[2]) = "/v1/dns/delete_domain"
                     /\ result =
                            VuReturn(BoolValue(RequestStatus(sent[2]) = OK))
                ELSE /\ Posts(sent) = <<>>
                     /\ result = VuRaise("ZoneDoesNotExistError", domain, 0)
            /\ (VuOp(call) = "delete_record" /\ domain # "") =>
                IF ~Listed(vuServer, domain)
                THEN /\ Posts(sent) = <<>>
                     /\ result = VuRaise("ZoneDoesNotExistError", domain, 0)
                ELSE IF ~ListedId(vuServer, domain, record_id)
                THEN /\ Posts(sent) = <<>>
                     /\ result =
                            VuRaise("RecordDoesNotExistError", "", record_id)
                ELSE /\ Len(sent) = 3
                     /\ sent[1] = ListRequest
                     /\ sent[2] = RecordsRequest(domain)
                     /\ RequestMethod(sent[3]) = "POST"
                     /\ RequestAction(sent[3]) = "/v1/dns/delete_record"
                     /\ result =
                            VuReturn(BoolValue(RequestStatus(sent[3]) = OK))
      ]_vars

\* delete_record sent its POST, was answered another status than 200, and
\* returned False
C8_Witness ==
    /\ VuOp(vuCall) = "delete_record"
    /\ Posts(vuSent) # <<>>
    /\ RequestStatus(Posts(vuSent)[1]) # OK
    /\ vuResult = VuReturn(BoolValue(FALSE))

\* C9: create_record for a zone that has a record of the name raises
\* RecordAlreadyExistsError with the id of that record and sends no POST;
\* for a zone the server does not list it raises ZoneDoesNotExistError and
\* sends no POST; a create_record POST is sent in neither case, and at most
\* once.
C9_CreateRecordChecksFirst ==
    [][ LET call == vuCall'
            domain == VuZoneId(call)
            name == VuName(call)
            posts == Posts(vuSent')
            result == vuResult'
        IN  VuOp(call) = "create_record" =>
                IF domain = ""
                THEN posts = <<>> /\ VuError(result) # "<none>"
                ELSE IF ~Listed(vuServer, domain)
                THEN /\ posts = <<>>
                     /\ result = VuRaise("ZoneDoesNotExistError", domain, 0)
                ELSE IF \E j \in 1..Len(ListedItems(vuServer, domain)) :
                            ListedItems(vuServer, domain)[j][2] = name
                THEN /\ posts = <<>>
                     /\ VuError(result) = "RecordAlreadyExistsError"
                     /\ \E j \in 1..Len(ListedItems(vuServer, domain)) :
                            /\ ListedItems(vuServer, domain)[j][2] = name
                            /\ ListedItems(vuServer, domain)[j][1] =
                                   VuErrorRecordId(result)
                ELSE /\ Len(posts) <= 1
                     /\ \A i \in 1..Len(posts) :
                            RequestAction(posts[i]) = "/v1/dns/create_record"
      ]_vars

\* create_record was refused for a name the zone has, next to another record
C9_Witness ==
    /\ VuOp(vuCall) = "create_record"
    /\ VuError(vuResult) = "RecordAlreadyExistsError"
    /\ Posts(vuSent) = <<>>
    /\ Listed(vuServer, VuZoneId(vuCall))
    /\ Len(ListedItems(vuServer, VuZoneId(vuCall))) = 2

\* C10: after a create_record POST answered 200, the returned Record has the
\* requested name and belongs to the given zone, whatever the order of the
\* refreshed record list.
C10_ReturnsCreatedRecord ==
    ( /\ VuOp(vuCall) = "create_record"
      /\ Posts(vuSent) # <<>>
      /\ RequestStatus(Posts(vuSent)[1]) = OK )
    => /\ VuError(vuResult) = "<none>"
       /\ VuValue(vuResult)[1] = "Record"
       /\ VuValue(vuResult)[3] = VuName(vuCall)
       /\ ZoneDomain(VuValue(vuResult)[4]) = VuZoneId(vuCall)

\* C11: a create_record that found the zone and no record of the name ends
\* without an unbound-variable failure for every extra, and its POST
\* carries the zone's domain, the name, the provider's string for the type
\* and the data, and for MX and SRV also 'priority' equal to
\* int(extra['priority']).
C11_PayloadIsComplete ==
    ( /\ VuOp(vuCall) = "create_record"
      /\ VuError(vuResult) \notin {"ZoneRequiredException",
                                   "ZoneDoesNotExistError",
                                   "RecordAlreadyExistsError"} )
    => /\ VuError(vuResult) = "<none>"
       /\ Len(Posts(vuSent)) = 1
       /\ LET body == RequestData(Posts(vuSent)[1])
              type == VuType(vuCall)
              extra == VuExtra(vuCall)
          IN  /\ RequestAction(Posts(vuSent)[1]) = "/v1/dns/create_record"
              /\ Has(body, "domain") /\ Get(body, "domain") = VuZoneId(vuCall)
              /\ Has(body, "name") /\ Get(body, "name") = VuName(vuCall)
              /\ Has(body, "type")
              /\ Get(body, "type") = Get(VU_RECORD_TYPE_MAP, type)
              /\ Has(body, "data") /\ Get(body, "data") = VuDataOf(vuCall)
              /\ type \in {"MX", "SRV"} =>
                    /\ TruthyEntry(extra, "priority")
                    /\ Has(body, "priority")
                    /\ Get(body, "priority") =
                           int(Get(DictOf(extra), "priority"))

====
